---- MODULE Spec2Model ----
(***************************************************************************)
(* The GET / handler of fossie (src/main.go): it assembles a SQL query     *)
(* from the q, tags and sort parameters, reads the matching rows and, for  *)
(* each row, its tags (one query per row), sorts the entries in memory and *)
(* renders them.  The store is the apps / app_tags tables of               *)
(* src/database/01_schema.sql.                                             *)
(*                                                                         *)
(* Strings are sequences of byte values, so that Go's string comparison    *)
(* (bytewise, lexicographic) and SQL's ILIKE are computed, not assumed.    *)
(***************************************************************************)
EXTENDS Integers, Sequences, FiniteSets, TLC

VARIABLES db_apps, db_app_tags, carbonLocale, h

vars == <<db_apps, db_app_tags, carbonLocale, h>>

----------------------------------------------------------------------------
(* Bounds of the model *)

\* keyword and tag filter of one request together hold at most this many bytes
MaxParamLen == 4
\* rows of the apps table in the filter specifications
MaxQueryApps == 2
\* rows of the apps table in the sort specification
MaxSortApps == 3
\* concurrent invocations of the handler
NumRequests == 2

----------------------------------------------------------------------------
(* Bytes *)

\* the separator of the tags parameter
ch_comma == 44
\* the wildcard the handler puts around the keyword
ch_pct == 37

\* all strings over the bytes cs of length 0..n
RECURSIVE StringsUpTo(_, _)
StringsUpTo(cs, n) ==
    IF n = 0 THEN {<<>>}
    ELSE LET shorter == StringsUpTo(cs, n - 1)
         IN  shorter \cup {<<c>> \o s : c \in cs, s \in {t \in shorter : Len(t) = n - 1}}

\* Go's s < t on strings: bytewise lexicographic, a proper prefix is smaller
RECURSIVE StrLess(_, _)
StrLess(s, t) ==
    IF t = <<>> THEN FALSE
    ELSE IF s = <<>> THEN TRUE
    ELSE IF Head(s) # Head(t) THEN Head(s) < Head(t)
    ELSE StrLess(Tail(s), Tail(t))

\* unicode.IsSpace on a byte of the ASCII range, as strings.TrimSpace uses it
IsSpace(c) == c \in {9, 10, 11, 12, 13, 32}

RECURSIVE TrimLeft(_)
TrimLeft(s) == IF s # <<>> /\ IsSpace(Head(s)) THEN TrimLeft(Tail(s)) ELSE s

RECURSIVE TrimRight(_)
TrimRight(s) ==
    IF s # <<>> /\ IsSpace(s[Len(s)]) THEN TrimRight(SubSeq(s, 1, Len(s) - 1)) ELSE s

\* strings.TrimSpace
TrimSpace(s) == TrimRight(TrimLeft(s))

\* strings.Split(s, ","): the pieces between the commas, empty pieces kept
RECURSIVE Split(_)
Split(s) ==
    IF \A i \in 1..Len(s) : s[i] # ch_comma THEN <<s>>
    ELSE LET i == CHOOSE k \in 1..Len(s) :
                      s[k] = ch_comma /\ \A j \in 1..(k - 1) : s[j] # ch_comma
         IN  <<SubSeq(s, 1, i - 1)>> \o Split(SubSeq(s, i + 1, Len(s)))

\* case folding of ILIKE on the ASCII range
Lower(c) == IF c \in 65..90 THEN c + 32 ELSE c

\* PostgreSQL's s ILIKE p: % matches any run of bytes, _ (95) any one byte, a
\* backslash (92) takes the next pattern byte literally, the rest match folded
RECURSIVE ILike(_, _)
ILike(s, p) ==
    IF p = <<>> THEN s = <<>>
    ELSE IF Head(p) = ch_pct
         THEN ILike(s, Tail(p)) \/ (s # <<>> /\ ILike(Tail(s), p))
    ELSE IF Head(p) = 95
         THEN s # <<>> /\ ILike(Tail(s), Tail(p))
    ELSE IF Head(p) = 92 /\ Len(p) >= 2
         THEN s # <<>> /\ Lower(Head(s)) = Lower(p[2]) /\ ILike(Tail(s), Tail(Tail(p)))
    ELSE s # <<>> /\ Lower(Head(s)) = Lower(Head(p)) /\ ILike(Tail(s), Tail(p))

----------------------------------------------------------------------------
(* The store: a column value is NULL or holds a value *)

NULL == [null |-> TRUE, v |-> <<>>]
NULLINT == [null |-> TRUE, v |-> 0]
V(x) == [null |-> FALSE, v |-> x]

\* the tags of entry id: SELECT tag FROM app_tags WHERE app_id = id
TagsOf(T, id) == {p[2] : p \in {q \in T : q[1] = id}}

\* a set of strings as a sequence, smallest first (the primary-key index order)
RECURSIVE SetToSeq(_)
SetToSeq(S) ==
    IF S = {} THEN <<>>
    ELSE LET m == CHOOSE x \in S : \A y \in S \ {x} : StrLess(x, y)
         IN  <<m>> \o SetToSeq(S \ {m})

\* the ids of a table, smallest first
RECURSIVE IdSeq(_)
IdSeq(S) ==
    IF S = {} THEN <<>>
    ELSE LET m == CHOOSE x \in S : \A y \in S : x <= y
         IN  <<m>> \o IdSeq(S \ {m})

----------------------------------------------------------------------------
(* Query assembly, lines 124-167 *)

NoQuery == [conditions |-> <<>>, args |-> <<>>]

\* KeywordPart without the argIdx++ of line 146
KeywordPartNoAdvance(keyword) ==
    IF keyword # <<>>
    THEN [conditions |-> <<[kind |-> "kw", idx |-> 1, placeholders |-> <<>>, n |-> 0]>>,
          args |-> <<keyword>>,
          argIdx |-> 1]
    ELSE [conditions |-> <<>>, args |-> <<>>, argIdx |-> 1]

\* the keyword predicate: one positional argument, used by all seven ILIKEs
KeywordPart(keyword) ==
    IF keyword # <<>>
    THEN [conditions |-> <<[kind |-> "kw", idx |-> 1, placeholders |-> <<>>, n |-> 0]>>,
          args |-> <<keyword>>,
          argIdx |-> 2]
    ELSE [conditions |-> <<>>, args |-> <<>>, argIdx |-> 1]

\* the tag predicate: one positional argument per piece of the tags parameter
TagPart(tags, argIdx) ==
    IF Len(tags) > 0
    THEN [conditions |-> <<[kind |-> "tags", idx |-> 0,
                            placeholders |-> [j \in 1..Len(tags) |-> argIdx + j - 1],
                            n |-> Len(tags)]>>,
          args |-> [j \in 1..Len(tags) |-> TrimSpace(tags[j])]]
    ELSE [conditions |-> <<>>, args |-> <<>>]

BuildQuery(keyword, tagFilter) ==
    LET tags == IF tagFilter # <<>> THEN Split(tagFilter) ELSE <<>>
        kw == KeywordPart(keyword)
        tg == TagPart(tags, kw.argIdx)
    IN  [conditions |-> kw.conditions \o tg.conditions, args |-> kw.args \o tg.args]

\* the columns the keyword predicate reads
KeywordColumns == {"name", "description", "maintainer", "license", "country", "language"}

\* one condition of the WHERE clause on row id; a NULL column makes its ILIKE
\* unknown, and a row is selected only when the disjunction is true
EvalCond(c, args, A, T, id) ==
    IF c.kind = "kw"
    THEN LET p == <<ch_pct>> \o args[c.idx] \o <<ch_pct>>
         IN  \/ \E f \in KeywordColumns : ~A[id][f].null /\ ILike(A[id][f].v, p)
             \/ \E t \in TagsOf(T, id) : ILike(t, p)
    ELSE LET wanted == {args[c.placeholders[j]] : j \in 1..Len(c.placeholders)}
         IN  Cardinality(TagsOf(T, id) \cap wanted) = c.n

\* the conditions are joined by AND
RowMatches(q, A, T, id) ==
    \A i \in 1..Len(q.conditions) : EvalCond(q.conditions[i], q.args, A, T, id)

\* the columns the main query selects, of row id
RowOf(A, id) ==
    [id |-> id, name |-> A[id].name, description |-> A[id].description,
     license |-> A[id].license, language |-> A[id].language, stars |-> A[id].stars,
     created_at |-> A[id].created_at, first_commit |-> A[id].first_commit,
     last_commit |-> A[id].last_commit]

\* the result set of the main query, in table order
Select(q, A, T) ==
    LET ids == IdSeq({id \in DOMAIN A : RowMatches(q, A, T, id)})
    IN  [i \in 1..Len(ids) |-> RowOf(A, ids[i])]

----------------------------------------------------------------------------
(* Sorting, lines 206-219 *)

\* Less with the "activity" case comparing the creation timestamp
LessActivityByCreated(sortParam, a, b) ==
    CASE sortParam = "stars" -> a.Stars > b.Stars
      [] sortParam = "activity" -> StrLess(b.CreatedAt, a.CreatedAt)
      [] sortParam = "recently_added" -> StrLess(b.CreatedAt, a.CreatedAt)
      [] sortParam = "age_asc" -> StrLess(a.FirstCommit, b.FirstCommit)
      [] sortParam = "age_desc" -> StrLess(b.FirstCommit, a.FirstCommit)
      [] OTHER -> StrLess(a.Name, b.Name)

\* Less with a case for "alphabetical" and no default case
LessNoDefault(sortParam, a, b) ==
    CASE sortParam = "stars" -> a.Stars > b.Stars
      [] sortParam = "activity" -> StrLess(b.LastCommit, a.LastCommit)
      [] sortParam = "recently_added" -> StrLess(b.CreatedAt, a.CreatedAt)
      [] sortParam = "age_asc" -> StrLess(a.FirstCommit, b.FirstCommit)
      [] sortParam = "age_desc" -> StrLess(b.FirstCommit, a.FirstCommit)
      [] sortParam = "alphabetical" -> StrLess(a.Name, b.Name)
      [] OTHER -> FALSE

\* Less with the "stars" case comparing apps[i] with itself
LessStarsSelf(sortParam, a, b) ==
    CASE sortParam = "stars" -> a.Stars > a.Stars
      [] sortParam = "activity" -> StrLess(b.LastCommit, a.LastCommit)
      [] sortParam = "recently_added" -> StrLess(b.CreatedAt, a.CreatedAt)
      [] sortParam = "age_asc" -> StrLess(a.FirstCommit, b.FirstCommit)
      [] sortParam = "age_desc" -> StrLess(b.FirstCommit, a.FirstCommit)
      [] OTHER -> StrLess(a.Name, b.Name)

\* the less function of each case of the sort switch
Less(sortParam, a, b) ==
    CASE sortParam = "stars" -> a.Stars > b.Stars
      [] sortParam = "activity" -> StrLess(b.LastCommit, a.LastCommit)
      [] sortParam = "recently_added" -> StrLess(b.CreatedAt, a.CreatedAt)
      [] sortParam = "age_asc" -> StrLess(a.FirstCommit, b.FirstCommit)
      [] sortParam = "age_desc" -> StrLess(b.FirstCommit, a.FirstCommit)
      [] OTHER -> StrLess(a.Name, b.Name)

Swap(s, i, j) == [s EXCEPT ![i] = s[j], ![j] = s[i]]

\* sort.Slice on fewer than 12 elements is an insertion sort: element i moves
\* down while it is less than its predecessor
RECURSIVE SiftDown(_, _, _)
SiftDown(sortParam, s, j) ==
    IF j > 1 /\ Less(sortParam, s[j], s[j - 1])
    THEN SiftDown(sortParam, Swap(s, j, j - 1), j - 1)
    ELSE s

RECURSIVE InsertionSort(_, _, _)
InsertionSort(sortParam, s, i) ==
    IF i > Len(s) THEN s
    ELSE InsertionSort(sortParam, SiftDown(sortParam, s, i), i + 1)

SortSlice(sortParam, s) == InsertionSort(sortParam, s, 2)

----------------------------------------------------------------------------
(* The handler, lines 103-441: h[r] holds the locals of invocation r *)

Requests == 1..NumRequests

\* var a App; id is the handler's local of line 179, kept with the entry so
\* that a rendered entry can be traced to its row
ZeroApp ==
    [id |-> 0, Name |-> <<>>, Description |-> <<>>, License |-> <<>>, Language |-> <<>>,
     Tags |-> <<>>, Stars |-> 0, CreatedAt |-> <<>>, FirstCommit |-> <<>>,
     LastCommit |-> <<>>]

NoRow ==
    [id |-> 0, name |-> NULL, description |-> NULL, license |-> NULL, language |-> NULL,
     stars |-> NULLINT, created_at |-> NULL, first_commit |-> NULL, last_commit |-> NULL]

\* an invocation that has read its parameters and not yet run
NewRequest(lang, sortParam, tagFilter, keyword) ==
    [pc |-> "start", lang |-> lang, sortParam |-> sortParam, tagFilter |-> tagFilter,
     keyword |-> keyword, query |-> NoQuery, rows |-> <<>>, rowsErr |-> FALSE,
     row |-> NoRow, a |-> ZeroApp, tagRows |-> <<>>, tagRowsErr |-> FALSE,
     tagList |-> <<>>, apps |-> <<>>, out |-> <<>>, status |-> 0]

\* no request has arrived on this connection
NoRequest == [NewRequest("en", "", <<>>, <<>>) EXCEPT !.pc = "idle"]

\* c.String(http.StatusInternalServerError, ...); return
Fail500(s) == [s EXCEPT !.pc = "done", !.status = 500, !.out = <<>>]

\* lines 104-167: the locale is set process-wide, the query is assembled
HandlerStart(r) ==
    /\ h[r].pc = "start"
    /\ carbonLocale' = h[r].lang
    /\ h' = [h EXCEPT ![r].pc = "query",
                       ![r].query = BuildQuery(h[r].keyword, h[r].tagFilter)]
    /\ UNCHANGED <<db_apps, db_app_tags>>

\* lines 169-176: db.Query succeeds; the result set is that of the statement
DbQuery(r) ==
    /\ h[r].pc = "query"
    /\ h' = [h EXCEPT ![r].pc = "rows_next",
                       ![r].rows = Select(h[r].query, db_apps, db_app_tags),
                       ![r].apps = <<>>]
    /\ UNCHANGED <<db_apps, db_app_tags, carbonLocale>>

\* lines 169-173: db.Query returns an error
DbQueryFail(r) ==
    /\ h[r].pc = "query"
    /\ h' = [h EXCEPT ![r] = Fail500(h[r])]
    /\ UNCHANGED <<db_apps, db_app_tags, carbonLocale>>

\* line 177: rows.Next() yields the next row, or false at the end
RowsNext(r) ==
    /\ h[r].pc = "rows_next"
    /\ h' = IF h[r].rows # <<>>
            THEN [h EXCEPT ![r].pc = "rows_scan",
                           ![r].row = Head(h[r].rows),
                           ![r].rows = Tail(h[r].rows)]
            ELSE [h EXCEPT ![r].pc = "sort"]
    /\ UNCHANGED <<db_apps, db_app_tags, carbonLocale>>

\* line 177: rows.Next() returns false because reading the next row failed;
\* the error stays in the Rows object (rows.Err()), and the loop ends
RowsNextFail(r) ==
    /\ h[r].pc = "rows_next"
    /\ h[r].rows # <<>>
    /\ h' = [h EXCEPT ![r].pc = "sort", ![r].rowsErr = TRUE]
    /\ UNCHANGED <<db_apps, db_app_tags, carbonLocale>>

\* the columns scanned into non-pointer string / int fields
ScanColumns ==
    {"name", "description", "license", "language", "stars", "created_at",
     "first_commit", "last_commit"}

\* lines 178-183: rows.Scan fails on a NULL, else fills a and id
RowsScan(r) ==
    /\ h[r].pc = "rows_scan"
    /\ LET row == h[r].row
       IN  h' = IF \E f \in ScanColumns : row[f].null
                THEN [h EXCEPT ![r] = Fail500(h[r])]
                ELSE [h EXCEPT ![r].pc = "tag_query",
                               ![r].a = [ZeroApp EXCEPT
                                   !.id = row.id,
                                   !.Name = row.name.v,
                                   !.Description = row.description.v,
                                   !.License = row.license.v,
                                   !.Language = row.language.v,
                                   !.Stars = row.stars.v,
                                   !.CreatedAt = row.created_at.v,
                                   !.FirstCommit = row.first_commit.v,
                                   !.LastCommit = row.last_commit.v]]
    /\ UNCHANGED <<db_apps, db_app_tags, carbonLocale>>

\* lines 185-192: the tag query of the current row succeeds
TagQuery(r) ==
    /\ h[r].pc = "tag_query"
    /\ h' = [h EXCEPT ![r].pc = "tag_next",
                       ![r].tagRows = SetToSeq(TagsOf(db_app_tags, h[r].a.id)),
                       ![r].tagList = <<>>]
    /\ UNCHANGED <<db_apps, db_app_tags, carbonLocale>>

\* lines 185-189: the tag query returns an error
TagQueryFail(r) ==
    /\ h[r].pc = "tag_query"
    /\ h' = [h EXCEPT ![r] = Fail500(h[r])]
    /\ UNCHANGED <<db_apps, db_app_tags, carbonLocale>>

\* lines 193-200: tagRows.Next() yields a tag, which is scanned and appended
TagRowsNext(r) ==
    /\ h[r].pc = "tag_next"
    /\ h[r].tagRows # <<>>
    /\ h' = [h EXCEPT ![r].tagList = Append(h[r].tagList, Head(h[r].tagRows)),
                       ![r].tagRows = Tail(h[r].tagRows)]
    /\ UNCHANGED <<db_apps, db_app_tags, carbonLocale>>

\* lines 195-198: tagRows.Scan returns an error
TagRowsScanFail(r) ==
    /\ h[r].pc = "tag_next"
    /\ h[r].tagRows # <<>>
    /\ h' = [h EXCEPT ![r] = Fail500(h[r])]
    /\ UNCHANGED <<db_apps, db_app_tags, carbonLocale>>

\* the entry of lines 201-203
Finished(s) == [s.a EXCEPT !.Tags = s.tagList]

\* lines 193, 201-203: tagRows.Next() is false at the end; the entry is appended
AppendApp(r) ==
    /\ h[r].pc = "tag_next"
    /\ h[r].tagRows = <<>>
    /\ h' = [h EXCEPT ![r].pc = "rows_next",
                       ![r].apps = Append(h[r].apps, Finished(h[r])),
                       ![r].a = ZeroApp, ![r].row = NoRow, ![r].tagList = <<>>]
    /\ UNCHANGED <<db_apps, db_app_tags, carbonLocale>>

\* lines 193, 201-203: tagRows.Next() is false because reading the next tag
\* failed; the error stays in tagRows.Err() (every tagRows of the invocation
\* lives until the deferred Close), the entry is appended as it is
TagRowsNextFail(r) ==
    /\ h[r].pc = "tag_next"
    /\ h[r].tagRows # <<>>
    /\ h' = [h EXCEPT ![r].pc = "rows_next",
                       ![r].apps = Append(h[r].apps, Finished(h[r])),
                       ![r].a = ZeroApp, ![r].row = NoRow, ![r].tagList = <<>>,
                       ![r].tagRows = <<>>, ![r].tagRowsErr = TRUE]
    /\ UNCHANGED <<db_apps, db_app_tags, carbonLocale>>

\* lines 206-219
SortApps(r) ==
    /\ h[r].pc = "sort"
    /\ h' = [h EXCEPT ![r].pc = "render",
                       ![r].apps = SortSlice(h[r].sortParam, h[r].apps)]
    /\ UNCHANGED <<db_apps, db_app_tags, carbonLocale>>

\* lines 415-438: one entry is rendered; DiffForHumans reads the process-wide
\* locale at that moment
RenderEntry(r) ==
    /\ h[r].pc = "render"
    /\ Len(h[r].out) < Len(h[r].apps)
    /\ h' = [h EXCEPT ![r].out = Append(h[r].out,
                  [app |-> h[r].apps[Len(h[r].out) + 1], diffLocale |-> carbonLocale])]
    /\ UNCHANGED <<db_apps, db_app_tags, carbonLocale>>

\* lines 439-440
Respond(r) ==
    /\ h[r].pc = "render"
    /\ Len(h[r].out) = Len(h[r].apps)
    /\ h' = [h EXCEPT ![r].pc = "done", ![r].status = 200]
    /\ UNCHANGED <<db_apps, db_app_tags, carbonLocale>>

----------------------------------------------------------------------------
(* The external ingestion process writes the tables while requests run *)

\* the tags the ingestion process uses
IngestTags == {<<120>>, <<121>>}

IngestAddTag(id, t) ==
    /\ id \in DOMAIN db_apps
    /\ <<id, t>> \notin db_app_tags
    /\ db_app_tags' = db_app_tags \cup {<<id, t>>}
    /\ UNCHANGED <<db_apps, carbonLocale, h>>

IngestRemoveTag(id, t) ==
    /\ <<id, t>> \in db_app_tags
    /\ db_app_tags' = db_app_tags \ {<<id, t>>}
    /\ UNCHANGED <<db_apps, carbonLocale, h>>

\* DELETE FROM apps: the entry's tags go with it (ON DELETE CASCADE)
IngestDeleteApp(id) ==
    /\ id \in DOMAIN db_apps
    /\ db_apps' = [i \in DOMAIN db_apps \ {id} |-> db_apps[i]]
    /\ db_app_tags' = {p \in db_app_tags : p[1] # id}
    /\ UNCHANGED <<carbonLocale, h>>

----------------------------------------------------------------------------
(* Store contents and request parameters the specifications start from *)

\* a row of apps: text columns, stars and the three timestamps as the driver
\* hands them to Scan
AppRow(name, description, maintainer, stars, created, first, last) ==
    [name |-> V(name), description |-> description, maintainer |-> maintainer,
     license |-> V(<<97>>), country |-> NULL, language |-> V(<<97>>),
     stars |-> V(stars), created_at |-> V(created), first_commit |-> V(first),
     last_commit |-> V(last)]

\* "a" tagged x,y; "Xa" tagged x; "a" maintained by "X" and tagged y
QueryCatalog ==
    { [app |-> AppRow(<<97>>, V(<<97>>), NULL, 1, <<49>>, <<49>>, <<49>>),
       tags |-> {<<120>>, <<121>>}],
      [app |-> AppRow(<<88, 97>>, V(<<97>>), NULL, 2, <<49>>, <<49>>, <<49>>),
       tags |-> {<<120>>}],
      [app |-> AppRow(<<97>>, V(<<97>>), V(<<88>>), 3, <<49>>, <<49>>, <<49>>),
       tags |-> {<<121>>}] }

\* Ant, Ban, Cat and ant: the five sort keys order them five different ways,
\* and ant ties with another entry on each timestamp
SortCatalog ==
    { [app |-> AppRow(<<65, 110, 116>>, V(<<97>>), NULL, 10, <<48, 51>>, <<48, 50>>, <<48, 49>>),
       tags |-> {<<120>>}],
      [app |-> AppRow(<<66, 97, 110>>, V(<<97>>), NULL, 5, <<48, 49>>, <<48, 51>>, <<48, 50>>),
       tags |-> {}],
      [app |-> AppRow(<<67, 97, 116>>, V(<<97>>), NULL, 1, <<48, 50>>, <<48, 49>>, <<49, 48>>),
       tags |-> {<<120>>, <<121>>}],
      [app |-> AppRow(<<97, 110, 116>>, V(<<97>>), NULL, 7, <<48, 51>>, <<48, 49>>, <<48, 50>>),
       tags |-> {}] }

\* the query catalog and an entry whose description is NULL
FailCatalog ==
    QueryCatalog \cup
    { [app |-> AppRow(<<120>>, NULL, NULL, 4, <<49>>, <<49>>, <<49>>), tags |-> {<<120>>}] }

\* the bytes of the keywords: x, X, _ and %
KwChars == {120, 88, 95, 37}
\* the bytes of the tags parameter: x, y, the comma and the space
TfChars == {120, 121, ch_comma, 32}

SortParams ==
    {"", "alphabetical", "stars", "activity", "recently_added", "age_asc", "age_desc",
     "newest"}

Locales == {"en", "de", "fr"}

\* the tables holding the catalog entries c[1], c[2], ...
StoreIs(c) ==
    /\ db_apps = [i \in DOMAIN c |-> c[i].app]
    /\ db_app_tags = {<<i, t>> : i \in DOMAIN c, t \in IngestTags} \cap
                     {p \in (DOMAIN c) \X IngestTags : p[2] \in c[p[1]].tags}

\* request 1 has arrived, the others have not
OneRequest(s) == h = [r \in Requests |-> IF r = 1 THEN s ELSE NoRequest]

InitQuery ==
    /\ \E c \in [1..MaxQueryApps -> QueryCatalog] : StoreIs(c)
    /\ carbonLocale = "en"
    /\ \E keyword \in StringsUpTo(KwChars, MaxParamLen) :
         \E tagFilter \in StringsUpTo(TfChars, MaxParamLen - Len(keyword)) :
            OneRequest(NewRequest("en", "", tagFilter, keyword))

InitSort ==
    /\ \E c \in [1..MaxSortApps -> SortCatalog] : StoreIs(c)
    /\ carbonLocale = "en"
    /\ \E sortParam \in SortParams, tagFilter \in {<<>>, <<120>>} :
            OneRequest(NewRequest("en", sortParam, tagFilter, <<>>))

InitFail ==
    /\ \E c \in [1..MaxQueryApps -> FailCatalog] : StoreIs(c)
    /\ carbonLocale = "en"
    /\ \E keyword \in {<<>>, <<120>>}, tagFilter \in {<<>>, <<120>>} :
            OneRequest(NewRequest("en", "", tagFilter, keyword))

InitIngest ==
    /\ \E c \in [1..MaxQueryApps -> QueryCatalog] : StoreIs(c)
    /\ carbonLocale = "en"
    /\ \E tagFilter \in {<<120>>, <<120, ch_comma, 121>>} :
            OneRequest(NewRequest("en", "", tagFilter, <<>>))

InitConcurrent ==
    /\ \E c \in [1..MaxQueryApps -> QueryCatalog] : StoreIs(c)
    /\ carbonLocale = "en"
    /\ \E lang \in [Requests -> Locales] :
            h = [r \in Requests |-> NewRequest(lang[r], "", <<>>, <<>>)]

----------------------------------------------------------------------------
(* Specifications *)

Serve(r) ==
    \/ HandlerStart(r)
    \/ DbQuery(r)
    \/ RowsNext(r)
    \/ RowsScan(r)
    \/ TagQuery(r)
    \/ TagRowsNext(r)
    \/ AppendApp(r)
    \/ SortApps(r)
    \/ RenderEntry(r)
    \/ Respond(r)

StoreFails(r) ==
    \/ DbQueryFail(r)
    \/ RowsNextFail(r)
    \/ TagQueryFail(r)
    \/ TagRowsScanFail(r)
    \/ TagRowsNextFail(r)

Ingest ==
    \E id \in 1..MaxQueryApps, t \in IngestTags :
        \/ IngestAddTag(id, t)
        \/ IngestRemoveTag(id, t)
        \/ IngestDeleteApp(id)

Next == \E r \in Requests : Serve(r)

NextFail == \E r \in Requests : Serve(r) \/ StoreFails(r)

NextIngest == (\E r \in Requests : Serve(r)) \/ Ingest

\* one request, the store answers every query and does not change
SpecQuery == InitQuery /\ [][Next]_vars
SpecSort == InitSort /\ [][Next]_vars
\* one request, any store interaction may fail
SpecFail == InitFail /\ [][NextFail]_vars
\* one request, the ingestion process writes between its queries
SpecIngest == InitIngest /\ [][NextIngest]_vars
\* concurrent requests
SpecConcurrent == InitConcurrent /\ [][Next]_vars

----------------------------------------------------------------------------
(* What the claims speak of *)

Done(r) == h[r].pc = "done"
\* the response of r is the rendered page
Ok(r) == Done(r) /\ h[r].status = 200

\* the ids of the entries of r's page, in page order
OutIds(r) == [i \in 1..Len(h[r].out) |-> h[r].out[i].app.id]
ReturnedIds(r) == {h[r].out[i].app.id : i \in 1..Len(h[r].out)}
NoDuplicates(seq) == \A i, j \in 1..Len(seq) : i # j => seq[i] # seq[j]
Range(seq) == {seq[i] : i \in 1..Len(seq)}

\* the set T of a tags parameter: its pieces, trimmed, each once
RequestedTags(tagFilter) == {TrimSpace(t) : t \in Range(Split(tagFilter))}

\* k occurs in s, letter case ignored
Contains(s, k) ==
    \E i \in 0..(Len(s) - Len(k)) : \A j \in 1..Len(k) : Lower(s[i + j]) = Lower(k[j])

\* the entries in which k occurs in a searchable column or a tag
KeywordEntries(k) ==
    {id \in DOMAIN db_apps :
        \/ \E f \in KeywordColumns : ~db_apps[id][f].null /\ Contains(db_apps[id][f].v, k)
        \/ \E t \in TagsOf(db_app_tags, id) : Contains(t, k)}

\* the entries a request with these parameters selects from the store as it is
SelectedBy(keyword, tagFilter) ==
    {id \in DOMAIN db_apps :
        RowMatches(BuildQuery(keyword, tagFilter), db_apps, db_app_tags, id)}

Orders(n) == {f \in [1..n -> 1..n] : \A i, j \in 1..n : f[i] = f[j] => i = j}

\* C1: a successful request with a non-empty tags parameter and no keyword
\* returns exactly the entries whose tag set includes every distinct,
\* trimmed piece of the parameter.
C1_TagFilterIsSupersetMatch ==
    \A r \in Requests :
        (Ok(r) /\ h[r].keyword = <<>> /\ h[r].tagFilter # <<>>) =>
            ReturnedIds(r) =
                {id \in DOMAIN db_apps :
                    RequestedTags(h[r].tagFilter) \subseteq TagsOf(db_app_tags, id)}

\* C2: a successful request with a non-empty keyword and no tag filter returns
\* exactly the entries in which the keyword occurs, letter case ignored, in
\* name, description, maintainer, license, country, language or a tag.
C2_KeywordIsSubstringMatch ==
    \A r \in Requests :
        (Ok(r) /\ h[r].keyword # <<>> /\ h[r].tagFilter = <<>>) =>
            ReturnedIds(r) = KeywordEntries(h[r].keyword)

\* C3: with both q and tags given, the entries returned are those returned
\* for q alone that are also returned for tags alone, and the positional
\* arguments bind the keyword to the keyword predicate and the j-th tag to
\* the j-th placeholder of the tag predicate.
C3_BothFiltersIntersect ==
    \A r \in Requests :
        (Ok(r) /\ h[r].keyword # <<>> /\ h[r].tagFilter # <<>>) =>
            LET q == h[r].query
                tags == Split(h[r].tagFilter)
            IN  /\ ReturnedIds(r) =
                       SelectedBy(h[r].keyword, <<>>) \cap SelectedBy(<<>>, h[r].tagFilter)
                /\ \A i \in 1..Len(q.conditions) :
                       LET c == q.conditions[i]
                       IN  IF c.kind = "kw"
                           THEN q.args[c.idx] = h[r].keyword
                           ELSE /\ Len(c.placeholders) = Len(tags)
                                /\ \A j \in 1..Len(tags) :
                                       q.args[c.placeholders[j]] = TrimSpace(tags[j])

\* a request with a keyword and two tags returned an entry and left out one
\* that the keyword alone selects
C3_Witness ==
    \E r \in Requests :
        /\ Ok(r) /\ h[r].keyword # <<>> /\ Len(Split(h[r].tagFilter)) = 2
        /\ Cardinality(RequestedTags(h[r].tagFilter)) = 2
        /\ ReturnedIds(r) # {}
        /\ ReturnedIds(r) # SelectedBy(h[r].keyword, <<>>)

\* adjacent entries a, b of a page respect the order of the sort key
InOrder(sortParam, a, b) ==
    CASE sortParam = "stars" -> a.Stars >= b.Stars
      [] sortParam = "activity" -> ~StrLess(a.LastCommit, b.LastCommit)
      [] sortParam = "recently_added" -> ~StrLess(a.CreatedAt, b.CreatedAt)
      [] sortParam = "age_asc" -> ~StrLess(b.FirstCommit, a.FirstCommit)
      [] sortParam = "age_desc" -> ~StrLess(a.FirstCommit, b.FirstCommit)
      [] OTHER -> ~StrLess(b.Name, a.Name)

KnownSortKeys == {"stars", "activity", "recently_added", "age_asc", "age_desc"}

\* the entries of S by ascending name (names pairwise distinct)
RECURSIVE ByName(_)
ByName(S) ==
    IF S = {} THEN <<>>
    ELSE LET m == CHOOSE x \in S :
                      \A y \in S \ {x} : StrLess(db_apps[x].name.v, db_apps[y].name.v)
         IN  <<m>> \o ByName(S \ {m})

DistinctNames(S) == \A x, y \in S : x # y => db_apps[x].name.v # db_apps[y].name.v

\* C5: with sort absent, "alphabetical" or any value that is none of the other
\* five keys, the page is the one sequence of the selected entries by
\* ascending name (entries with distinct names).
C5_DefaultIsAlphabetical ==
    \A r \in Requests :
        (Ok(r) /\ h[r].sortParam \notin KnownSortKeys
               /\ DistinctNames(SelectedBy(h[r].keyword, h[r].tagFilter))) =>
            OutIds(r) = ByName(SelectedBy(h[r].keyword, h[r].tagFilter))

\* an unknown sort value gave a page by name that is not in table order
C5_Witness ==
    \E r \in Requests :
        /\ Ok(r) /\ h[r].sortParam = "newest"
        /\ Len(h[r].out) = MaxSortApps
        /\ DistinctNames(ReturnedIds(r))
        /\ \E i \in 1..(Len(h[r].out) - 1) : OutIds(r)[i] > OutIds(r)[i + 1]

\* the store has reported an error to invocation r that the handler has not
\* answered: rows.Err() or a tagRows.Err() is set
ReadFailed(r) == h[r].rowsErr \/ h[r].tagRowsErr

\* C6: a request during which a store interaction failed ends with status 500
\* and no entry list.
C6_FailureGives500 ==
    \A r \in Requests :
        (Done(r) /\ ReadFailed(r)) => (h[r].status = 500 /\ h[r].out = <<>>)

\* C7: a page holds every entry its query selects exactly once, each with
\* exactly its tag set of the store, no tag twice.
C7_EntriesOnceWithTheirTags ==
    \A r \in Requests :
        Ok(r) =>
            /\ NoDuplicates(OutIds(r))
            /\ ReturnedIds(r) = SelectedBy(h[r].keyword, h[r].tagFilter)
            /\ \A i \in 1..Len(h[r].out) :
                   LET a == h[r].out[i].app
                   IN  /\ NoDuplicates(a.Tags)
                       /\ Range(a.Tags) = TagsOf(db_app_tags, a.id)

\* C8: the response of an invocation is the one it gives when it runs alone:
\* every entry's last-activity text is in the locale of its own lang.
C8_RequestsIndependent ==
    \A r \in Requests :
        Ok(r) => \A i \in 1..Len(h[r].out) : h[r].out[i].diffLocale = h[r].lang

\* C9: for entries with pairwise distinct star counts, the page sorted by
\* "stars" is what the "stars" sort makes of every order of its entries, the
\* page's own order included.
C9_StarsSortIdempotent ==
    \A r \in Requests :
        (Ok(r) /\ h[r].sortParam = "stars"
               /\ NoDuplicates([i \in 1..Len(h[r].apps) |-> h[r].apps[i].Stars])) =>
            \A f \in Orders(Len(h[r].apps)) :
                SortSlice("stars", [i \in 1..Len(h[r].apps) |-> h[r].apps[f[i]]])
                    = h[r].apps

\* a page sorted by stars, of distinct star counts, not in table order
C9_Witness ==
    \E r \in Requests :
        /\ Ok(r) /\ h[r].sortParam = "stars"
        /\ Len(h[r].apps) = MaxSortApps
        /\ NoDuplicates([i \in 1..Len(h[r].apps) |-> h[r].apps[i].Stars])
        /\ \E i \in 1..(Len(h[r].out) - 1) : OutIds(r)[i] > OutIds(r)[i + 1]

\* C10: on a page for a non-empty tag filter, the tag list of every entry
\* holds every requested tag.
C10_PageTagsIncludeFilter ==
    \A r \in Requests :
        (Ok(r) /\ h[r].tagFilter # <<>>) =>
            \A i \in 1..Len(h[r].out) :
                RequestedTags(h[r].tagFilter) \subseteq Range(h[r].out[i].app.Tags)

====
